---- MODULE Spec2Model ----
(***************************************************************************)
(* InnSight dashboard: the filter-driven controller (App), the map adapter *)
(* (MapComponent), the chart adapter (Charts) and the data access facade   *)
(* (API), as a state machine.                                              *)
(*                                                                         *)
(* Conventions.  A JavaScript number that may be null/undefined is a set:  *)
(* {} is the absent value and {v} the number v.  A string that may be      *)
(* missing is "" (JavaScript's || and ! treat both alike).  A JSON object  *)
(* is a record; a field the object lacks is a field outside its DOMAIN.    *)
(* One-decimal quantities (percentages) are integers counted in tenths.    *)
(***************************************************************************)
EXTENDS Integers, Sequences, FiniteSets, TLC

VARIABLES
    initPc,               \* position of App.init
    options,              \* <option>s appended to the neighbourhood dropdown
    form,                 \* values of the filter form fields
    currentFilters,       \* App.currentFilters
    currentNeighbourhood, \* App.currentNeighbourhood ("" is null)
    allListings,          \* App.allListings
    listingCount,         \* #listingCount text: {} before the first write
    avgPrice,             \* #avgPrice text
    sentimentScore,       \* #sentimentScore text (tenths): {} before the first write
    markers,              \* markersLayer: the markers, in insertion order
    viewport,             \* the Leaflet map's view
    loadingHidden,        \* #loadingOverlay has class "hidden"
    listeners,            \* setupEventListeners has run
    alerts,               \* number of alert() dialogs raised
    charts,               \* Charts.priceChart, roomTypeChart, sentimentChart, occupancyChart
    live,                 \* per chart kind, the Chart instances created and not destroyed
    tasks,                \* the loadData / updateAll calls suspended at an await
    nextId,               \* number of loadData / updateAll calls started so far
    listingsBy,           \* the call whose record set App.allListings holds
    rendered,             \* the latest-started call that has completed with its record set applied
    failures,             \* number of fetches that have ended in an error so far
    apiCall,              \* the API call under examination: {} when there is none
    apiResult,            \* what that call gave its caller: {} while it has not ended
    fnInput,              \* the arguments a function is examined on: {} when there are none
    fnOutputs             \* what the function returned, one element per run

vars == <<initPc, options, form, currentFilters, currentNeighbourhood, allListings,
          listingCount, avgPrice, sentimentScore, markers, viewport, loadingHidden,
          listeners, alerts, charts, live, tasks, nextId, listingsBy, rendered, failures,
          apiCall, apiResult, fnInput, fnOutputs>>

----------------------------------------------------------------------------
(* Bounds of the model.                                                    *)

MaxActions == 2        \* filter actions the user performs after init
MaxFailures == 1       \* fetches that end in an error
MaxPrice == 400        \* largest nightly price a function is examined on
MaxRoomRecords == 6    \* most records the room-type distribution is examined on
MaxHostRecords == 3    \* most records the top-hosts aggregation is examined on
MaxRuns == 2           \* runs of getMockOccupancy on one argument
MaxWords == 2          \* most words a word-cloud answer carries
MaxCount == 3          \* largest count of a word

----------------------------------------------------------------------------
(* JavaScript values.                                                      *)

None == {}
Some(v) == {v}
Val(o) == CHOOSE v \in o : TRUE

\* JavaScript truthiness of a number that may be absent: null, undefined
\* and 0 are falsy.
TruthyNum(o) == o # None /\ o # Some(0)

\* obj.field is defined
Has(obj, field) == field \in DOMAIN obj

Ret(v) == [threw |-> FALSE, value |-> v]
Throw == [threw |-> TRUE, value |-> <<>>]

\* Array.prototype.filter / map
Filter(s, P(_)) == SelectSeq(s, P)
Map(s, F(_)) == [i \in 1..Len(s) |-> F(s[i])]

RECURSIVE SumSeq(_)
SumSeq(s) == IF s = <<>> THEN 0 ELSE Head(s) + SumSeq(Tail(s))

\* Math.round(num / den) for den > 0: halves round towards +Infinity
MathRound(num, den) == (2 * num + den) \div (2 * den)

----------------------------------------------------------------------------
(* The external data service, at its interface: the listing collection and *)
(* the pre-computed analytics the endpoints return.                        *)

ServerListings ==
    << [id |-> 1, latitude |-> Some(51), longitude |-> Some(-1), price |-> Some(200),
        room_type |-> "Entire home/apt", neighbourhood_cleansed |-> "Camden",
        host_id |-> Some(9), host_name |-> "Blueground"],
       [id |-> 2, latitude |-> Some(51), longitude |-> Some(0), price |-> Some(100),
        room_type |-> "Private room", neighbourhood_cleansed |-> "Camden",
        host_id |-> Some(7), host_name |-> "John"],
       [id |-> 3, latitude |-> None, longitude |-> Some(-1), price |-> Some(350),
        room_type |-> "Private room", neighbourhood_cleansed |-> "Hackney",
        host_id |-> Some(9), host_name |-> "Blueground"],
       [id |-> 4, latitude |-> Some(52), longitude |-> Some(-1), price |-> None,
        room_type |-> "", neighbourhood_cleansed |-> "Camden",
        host_id |-> None, host_name |-> ""] >>

ServerNeighbourhoods == <<"Camden">>

\* price-stats: by_neighbourhood, sorted by average price
ServerPriceStats ==
    [city |-> "london",
     by_neighbourhood |-> << [_id |-> "Camden", avg_price |-> Some(275)],
                             [_id |-> "Hackney", avg_price |-> Some(350)] >>]

\* sentiment: percentages in tenths
ServerSentiment ==
    [city |-> "london",
     sentiment |-> [positive |-> [count |-> 100, percentage |-> Some(800)],
                    neutral  |-> [count |-> 20,  percentage |-> Some(160)],
                    negative |-> [count |-> 5,   percentage |-> Some(40)]]]

\* sentiment/by-neighbourhood
ServerSentimentByNeighbourhood ==
    [city |-> "london",
     neighbourhoods |-> << [neighbourhood |-> "Camden", positive |-> 30,
                            positive_pct |-> Some(750), neutral |-> 8, negative |-> 2] >>]

ServerOccupancy ==
    [city |-> "london",
     by_month |-> << [_id |-> "2024-12", month |-> "", occupancy_rate |-> Some(50)],
                     [_id |-> "2025-01", month |-> "", occupancy_rate |-> Some(55)] >>]

\* the body of a 4xx/5xx answer
ErrorBody == [error |-> "Database connection failed"]

\* How a fetch can end: the answer arrives with an ok status ("ok"); fetch()
\* rejects ("neterr"); the answer has a non-ok status and a JSON error body
\* ("httperr"); response.json() rejects ("badjson").
Responses == {"ok", "neterr", "httperr", "badjson"}

\* the decimal strings of the price inputs, parsed
Num(s) == CASE s = "100" -> 100
            [] s = "150" -> 150
            [] OTHER -> 0

Take(s, n) == SubSeq(s, 1, IF n < Len(s) THEN n ELSE Len(s))

\* GET /listings/london?...: the parameters are AND-combined, limit caps the result
MatchesQuery(l, q) ==
    /\ Has(q, "min_price") => (l.price # None /\ Val(l.price) >= Num(q.min_price))
    /\ Has(q, "max_price") => (l.price # None /\ Val(l.price) <= Num(q.max_price))
    /\ Has(q, "room_type") => l.room_type = q.room_type
    /\ Has(q, "neighbourhood") => l.neighbourhood_cleansed = q.neighbourhood

ListingsEndpoint(q) ==
    LET match(l) == MatchesQuery(l, q)
    IN  [city |-> "london",
         listings |-> Take(Filter(ServerListings, match), q.limit)]

----------------------------------------------------------------------------
(* MapComponent (src/frontend/js/map.js).                                  *)

\* map.setView([51.5074, -0.1278], 11): coordinates in 1/10000 degree
DefaultView == [center |-> <<515074, -1278>>, zoom |-> 11]

\* getMarkerColor with >= in place of > at the tier boundaries
getMarkerColor_inclusive(price) ==
    IF ~TruthyNum(price) THEN "#9ca3af"
    ELSE IF Val(price) >= 300 THEN "#ef4444"
    ELSE IF Val(price) >= 150 THEN "#f59e0b"
    ELSE "#10b981"

getMarkerColor(price) ==
    IF ~TruthyNum(price) THEN "#9ca3af"
    ELSE IF Val(price) > 300 THEN "#ef4444"
    ELSE IF Val(price) > 150 THEN "#f59e0b"
    ELSE "#10b981"

\* a ValidListing that does not look at the price
ValidListing_anyPrice(l) ==
    /\ TruthyNum(l.latitude)
    /\ TruthyNum(l.longitude)

\* the filter of addListings: l.latitude && l.longitude && l.price !== null
\* && l.price !== undefined && l.price > 0
ValidListing(l) ==
    /\ TruthyNum(l.latitude)
    /\ TruthyNum(l.longitude)
    /\ l.price # None
    /\ Val(l.price) > 0

MakeMarker(l) ==
    [listing |-> l.id,
     latlng |-> <<Val(l.latitude), Val(l.longitude)>>,
     color |-> getMarkerColor(l.price)]

\* addListings(listings): the markers layer afterwards.  The argument is
\* None for a null/undefined argument and Some(array) otherwise; the layer
\* is cleared first, so the earlier markers never survive.
addListings(listings) ==
    IF listings = None \/ Len(Val(listings)) = 0 THEN <<>>
    ELSE Map(Filter(Val(listings), ValidListing), MakeMarker)

\* the filter of zoomToNeighbourhood: l.latitude && l.longitude
HasCoords(l) == TruthyNum(l.latitude) /\ TruthyNum(l.longitude)

SetMin(S) == CHOOSE x \in S : \A y \in S : x <= y
SetMax(S) == CHOOSE x \in S : \A y \in S : x >= y

\* zoomToNeighbourhood(listings): the view afterwards, given the view before
zoomToNeighbourhood(listings, view) ==
    IF listings = None \/ Len(Val(listings)) = 0 THEN view
    ELSE LET coords == Filter(Val(listings), HasCoords)
             lats == {Val(coords[i].latitude) : i \in 1..Len(coords)}
             lngs == {Val(coords[i].longitude) : i \in 1..Len(coords)}
         IN  IF Len(coords) = 0 THEN view
             ELSE [bounds |-> <<SetMin(lats), SetMin(lngs), SetMax(lats), SetMax(lngs)>>,
                   padding |-> 50, maxZoom |-> 14]

resetView == DefaultView

----------------------------------------------------------------------------
(* API (src/frontend/js/map.js): each call is given the way its fetch      *)
(* ends and yields Ret(value) or Throw.                                    *)

\* the URLSearchParams of getListings
ListingParams(filters) ==
    LET given(k) == Has(filters, k) /\ filters[k] # ""
        keys == {k \in {"min_price", "max_price", "room_type", "neighbourhood"} :
                    \/ k = "min_price" /\ given("minPrice")
                    \/ k = "max_price" /\ given("maxPrice")
                    \/ k = "room_type" /\ given("roomType")
                    \/ k = "neighbourhood" /\ given("neighbourhood")}
    IN  [k \in keys \cup {"limit"} |->
            CASE k = "min_price" -> filters.minPrice
              [] k = "max_price" -> filters.maxPrice
              [] k = "room_type" -> filters.roomType
              [] k = "neighbourhood" -> filters.neighbourhood
              [] k = "limit" -> IF Has(filters, "limit") /\ filters.limit # 0
                                THEN filters.limit ELSE 5000]

\* a getListings that answers a failed fetch with an empty record set
getListings_emptyOnError(filters, resp) ==
    IF resp = "ok" THEN Ret(ListingsEndpoint(ListingParams(filters)))
    ELSE Ret([city |-> "london", listings |-> <<>>])

getListings(filters, resp) ==
    IF resp = "ok" THEN Ret(ListingsEndpoint(ListingParams(filters)))
    ELSE Throw

getNeighbourhoods(resp) ==
    IF resp = "ok" THEN Ret(ServerNeighbourhoods)
    ELSE Ret(<<>>)

\* the API object of map.js: getPriceStats(neighbourhood = null)
getPriceStats(neighbourhood, resp) ==
    CASE resp \in {"neterr", "badjson"} -> Throw
      [] resp = "httperr" -> IF neighbourhood # "" THEN Throw ELSE Ret(ErrorBody)
      [] resp = "ok" ->
            IF neighbourhood # ""
            THEN LET found == Filter(ServerPriceStats.by_neighbourhood,
                                     LAMBDA n : n._id = neighbourhood)
                 IN  Ret(IF found # <<>> THEN found[1]
                         ELSE [avg_price |-> Some(0), count |-> 0])
            ELSE Ret(ServerPriceStats)

\* the listing query of getRoomTypeDistribution and getTopHosts
NeighbourhoodQuery(neighbourhood) ==
    IF neighbourhood # "" THEN [neighbourhood |-> neighbourhood, limit |-> 10000]
    ELSE [limit |-> 10000]

\* the keys of an object counting labels: the distinct labels in first-encounter order
RECURSIVE Distinct(_)
Distinct(s) ==
    IF s = <<>> THEN <<>>
    ELSE LET rest == Distinct(SubSeq(s, 1, Len(s) - 1))
             last == s[Len(s)]
         IN  IF \E i \in 1..Len(rest) : rest[i] = last THEN rest ELSE Append(rest, last)

\* PercentTenths that drops the second decimal instead of rounding
PercentTenths_truncated(count, total) == (count * 1000) \div total

\* (x).toFixed(1) of count / total * 100, in tenths
PercentTenths(count, total) == MathRound(count * 1000, total)

\* RoomTypeOf without the 'Unknown' bucket
RoomTypeOf_raw(l) == l.room_type

RoomTypeOf(l) == IF l.room_type # "" THEN l.room_type ELSE "Unknown"

RoomTypeDistribution(listings) ==
    LET labels == Map(listings, RoomTypeOf)
        total == Len(listings)
        count(type) == Cardinality({i \in 1..Len(labels) : labels[i] = type})
        entry(type) == [_id |-> type, count |-> count(type),
                        percentage |-> IF total > 0 THEN PercentTenths(count(type), total)
                                       ELSE 0]
    IN  Map(Distinct(labels), entry)

\* what getRoomTypeDistribution returns once it has the listings
RoomTypeResult(neighbourhood, listings) ==
    [city |-> "london", neighbourhood |-> neighbourhood,
     total_listings |-> Len(listings),
     distribution |-> RoomTypeDistribution(listings)]

getRoomTypeDistribution(neighbourhood, resp) ==
    IF resp \in {"neterr", "badjson"} THEN Throw
    ELSE LET listings == IF resp = "ok"
                         THEN ListingsEndpoint(NeighbourhoodQuery(neighbourhood)).listings
                         ELSE <<>>
         IN  Ret(RoomTypeResult(neighbourhood, listings))

getSentiment(resp) ==
    CASE resp \in {"neterr", "badjson"} -> Throw
      [] resp = "httperr" -> Ret(ErrorBody)
      [] resp = "ok" -> Ret(ServerSentiment)

getSentimentByNeighbourhood(neighbourhood, resp) ==
    IF resp # "ok" THEN Ret(<<>>)
    ELSE IF neighbourhood # ""
         THEN Ret(Filter(ServerSentimentByNeighbourhood.neighbourhoods,
                         LAMBDA n : n.neighbourhood = neighbourhood))
         ELSE Ret(ServerSentimentByNeighbourhood.neighbourhoods)

\* the values Math.random() * 10 - 5 is drawn from (it lies in [-5, 5))
Variations == {-5, 4}

BaseRates == <<45, 48, 55, 62, 70, 78, 85, 82, 68, 58, 50, 52>>
Months == <<"Jan", "Feb", "Mar", "Apr", "May", "Jun",
            "Jul", "Aug", "Sep", "Oct", "Nov", "Dec">>
MonthIds == <<"2024-01", "2024-02", "2024-03", "2024-04", "2024-05", "2024-06",
              "2024-07", "2024-08", "2024-09", "2024-10", "2024-11", "2024-12">>

Clamp(lo, hi, x) == IF x < lo THEN lo ELSE IF x > hi THEN hi ELSE x

\* a getMockOccupancy that adds the variation whether or not a neighbourhood is given
getMockOccupancy_alwaysVaried(neighbourhood, random) ==
    [city |-> "london", neighbourhood |-> neighbourhood,
     by_month |-> [i \in 1..12 |->
                      [_id |-> MonthIds[i], month |-> Months[i],
                       occupancy_rate |-> Some(Clamp(0, 100, BaseRates[i] + random))]]]

\* getMockOccupancy(neighbourhood), random being the value Math.random() * 10 - 5 takes
getMockOccupancy(neighbourhood, random) ==
    LET variation == IF neighbourhood # "" THEN random ELSE 0
    IN  [city |-> "london", neighbourhood |-> neighbourhood,
         by_month |-> [i \in 1..12 |->
                          [_id |-> MonthIds[i], month |-> Months[i],
                           occupancy_rate |-> Some(Clamp(0, 100, BaseRates[i] + variation))]]]

\* the occupancy endpoint can also answer ok with no monthly data ("empty")
OccupancyResponses == Responses \cup {"empty"}

\* the parsed body of the occupancy endpoint's answer
OccupancyBody(resp) ==
    CASE resp = "ok" -> ServerOccupancy
      [] resp = "empty" -> [city |-> "london", by_month |-> <<>>]
      [] OTHER -> ErrorBody

\* a getOccupancy that returns whatever body carries a by_month, empty or not
getOccupancy_noEmptyCheck(neighbourhood, resp, random) ==
    IF resp \in {"neterr", "badjson"} THEN Ret(getMockOccupancy(neighbourhood, random))
    ELSE LET data == OccupancyBody(resp)
         IN  IF Has(data, "by_month") THEN Ret(data)
             ELSE Ret(getMockOccupancy(neighbourhood, random))

getOccupancy(neighbourhood, resp, random) ==
    IF resp \in {"neterr", "badjson"} THEN Ret(getMockOccupancy(neighbourhood, random))
    ELSE LET data == OccupancyBody(resp)
         IN  IF Has(data, "by_month") /\ Len(data.by_month) > 0 THEN Ret(data)
             ELSE Ret(getMockOccupancy(neighbourhood, random))

\* listing.host_id || 'unknown': Some(id) for a numeric id, None for 'unknown'
HostIdOf(l) == IF TruthyNum(l.host_id) THEN l.host_id ELSE None

RECURSIVE Ascending(_)
Ascending(S) ==
    IF S = {} THEN <<>> ELSE <<SetMin(S)>> \o Ascending(S \ {SetMin(S)})

\* Object.values(hostCounts) enumerates the integer keys in ascending order
\* and the key 'unknown' after them
HostKeys(listings) ==
    LET ids == {Val(HostIdOf(listings[i])) :
                    i \in {j \in 1..Len(listings) : HostIdOf(listings[j]) # None}}
    IN  Map(Ascending(ids), Some)
        \o (IF \E i \in 1..Len(listings) : HostIdOf(listings[i]) = None
            THEN <<None>> ELSE <<>>)

\* total_price / count_with_price, kept exact
Quotient(num, den) == [num |-> num, den |-> den]

\* one element of hosts: the entry of hostCounts under the key, averaged
HostEntry(listings, key) ==
    LET own == Filter(listings, LAMBDA l : HostIdOf(l) = key)
        priced == Filter(own, LAMBDA l : TruthyNum(l.price))
    IN  [_id |-> key,
         host_name |-> IF own[1].host_name # "" THEN own[1].host_name ELSE "Unknown Host",
         listing_count |-> Len(own),
         avg_price |-> IF Len(priced) > 0
                       THEN Quotient(SumSeq(Map(priced, LAMBDA l : Val(l.price))),
                                     Len(priced))
                       ELSE Quotient(0, 1)]

\* SortByListingCount without the sort
SortByListingCount_unsorted(hosts) == hosts

\* hosts.sort((a, b) => b.listing_count - a.listing_count): a stable sort
RECURSIVE SortByListingCount(_)
SortByListingCount(hosts) ==
    IF hosts = <<>> THEN <<>>
    ELSE LET top == SetMax({hosts[i].listing_count : i \in 1..Len(hosts)})
             first == SetMin({i \in 1..Len(hosts) : hosts[i].listing_count = top})
         IN  <<hosts[first]>>
             \o SortByListingCount(SubSeq(hosts, 1, first - 1)
                                   \o SubSeq(hosts, first + 1, Len(hosts)))

TopHosts(listings, limit) ==
    Take(SortByListingCount(Map(HostKeys(listings), LAMBDA key : HostEntry(listings, key))),
         limit)

\* what getTopHosts returns once it has the listings
TopHostsResult(neighbourhood, listings, limit) ==
    [city |-> "london", neighbourhood |-> neighbourhood,
     top_hosts |-> TopHosts(listings, limit)]

getTopHosts(neighbourhood, limit, resp) ==
    IF resp \in {"neterr", "badjson"} THEN Ret([top_hosts |-> <<>>])
    ELSE LET listings == IF resp = "ok"
                         THEN ListingsEndpoint(NeighbourhoodQuery(neighbourhood)).listings
                         ELSE <<>>
         IN  Ret(TopHostsResult(neighbourhood, listings, limit))

----------------------------------------------------------------------------
(* Charts (the neighbourhood-specific chart component).                    *)

Kinds == {"price", "roomType", "sentiment", "occupancy"}

\* What one create*Chart call does once its fetch has ended: it fails before
\* the previous instance is touched ("before"), it destroys the previous
\* instance and fails while building the new configuration ("after"), or it
\* destroys the previous instance and constructs the new one ("drawn").
Before == [stage |-> "before", title |-> "", labels |-> <<>>, data |-> <<>>]
After == [stage |-> "after", title |-> "", labels |-> <<>>, data |-> <<>>]
Drawn(title, labels, data) ==
    [stage |-> "drawn", title |-> title, labels |-> labels, data |-> data]

\* the chartTitle of each create*Chart
ChartTitle(kind, neighbourhood) ==
    CASE kind = "price" ->
            IF neighbourhood # "" THEN "Average Price: " \o neighbourhood
            ELSE "Top 10 Neighbourhoods by Price"
      [] kind = "roomType" ->
            IF neighbourhood # "" THEN "Room Types: " \o neighbourhood
            ELSE "Room Type Distribution (All London)"
      [] kind = "sentiment" ->
            IF neighbourhood # "" THEN "Sentiment: " \o neighbourhood
            ELSE "Sentiment Analysis (All London)"
      [] kind = "occupancy" ->
            IF neighbourhood # "" THEN "Occupancy by Month: " \o neighbourhood
            ELSE "Occupancy by Month (All London)"

\* n.toFixed(d) of a present number
ToFixed(o, d) == [number |-> Val(o), decimals |-> d]

\* createPriceChart once getPriceStats() has answered data
PriceChartOf(data, selectedNeighbourhood) ==
    LET all == data.by_neighbourhood
        neighbourhoods ==
           IF selectedNeighbourhood # ""
           THEN Filter(all, LAMBDA n : n._id = selectedNeighbourhood)
           ELSE Take(all, 10)
        chartTitle == ChartTitle("price", selectedNeighbourhood)
    IN  IF \E i \in 1..Len(neighbourhoods) : neighbourhoods[i].avg_price = None
        THEN After
        ELSE Drawn(chartTitle,
                   Map(neighbourhoods, LAMBDA n : n._id),
                   Map(neighbourhoods, LAMBDA n : ToFixed(n.avg_price, 2)))

createPriceChart(selectedNeighbourhood, resp) ==
    LET r == getPriceStats("", resp)
    IN  IF r.threw \/ ~Has(r.value, "by_neighbourhood") THEN Before
        ELSE PriceChartOf(r.value, selectedNeighbourhood)

\* a createRoomTypeChart that always draws the city-wide chart
createRoomTypeChart_unscoped(neighbourhood, resp) ==
    LET r == getRoomTypeDistribution("", resp)
    IN  IF r.threw THEN Before
        ELSE Drawn(ChartTitle("roomType", ""),
                   Map(r.value.distribution, LAMBDA d : d._id),
                   Map(r.value.distribution, LAMBDA d : d.count))

createRoomTypeChart(neighbourhood, resp) ==
    LET r == getRoomTypeDistribution(neighbourhood, resp)
    IN  IF r.threw THEN Before
        ELSE Drawn(ChartTitle("roomType", neighbourhood),
                   Map(r.value.distribution, LAMBDA d : d._id),
                   Map(r.value.distribution, LAMBDA d : d.count))

createSentimentChart(neighbourhood, resp) ==
    IF neighbourhood # ""
    THEN LET nbData == getSentimentByNeighbourhood(neighbourhood, resp).value
             counts == IF Len(nbData) > 0
                       THEN <<nbData[1].positive, nbData[1].neutral, nbData[1].negative>>
                       ELSE <<0, 0, 0>>
         IN  Drawn(ChartTitle("sentiment", neighbourhood),
                   <<"Positive", "Neutral", "Negative">>, counts)
    ELSE LET r == getSentiment(resp)
         IN  IF r.threw THEN Before
             ELSE IF ~Has(r.value, "sentiment") THEN After
             ELSE LET sentimentData == r.value.sentiment
                  IN  Drawn(ChartTitle("sentiment", neighbourhood),
                            <<"Positive", "Neutral", "Negative">>,
                            <<sentimentData.positive.count, sentimentData.neutral.count,
                              sentimentData.negative.count>>)

\* createOccupancyChart once getOccupancy(neighbourhood) has answered data
OccupancyChartOf(data, neighbourhood) ==
    IF \E i \in 1..Len(data.by_month) : data.by_month[i].occupancy_rate = None
    THEN After
    ELSE Drawn(ChartTitle("occupancy", neighbourhood),
               Map(data.by_month, LAMBDA m : IF m.month # "" THEN m.month ELSE m._id),
               Map(data.by_month, LAMBDA m : ToFixed(m.occupancy_rate, 1)))

createOccupancyChart(neighbourhood, resp, random) ==
    OccupancyChartOf(getOccupancy(neighbourhood, resp, random).value, neighbourhood)

\* the neighbourhood arguments the charts are created with
ChartScopes == {"", "Camden", "Hackney", "Soho"}

\* createRoomTypeChart, tabulated over its arguments
RoomTypeCharts ==
    [neighbourhood \in ChartScopes, resp \in Responses |->
        createRoomTypeChart(neighbourhood, resp)]

\* how the fetch of a create*Chart call can end
ResponsesOf(kind) == IF kind = "occupancy" THEN OccupancyResponses ELSE Responses

CreateChart(kind, neighbourhood, resp, random) ==
    CASE kind = "price" -> createPriceChart(neighbourhood, resp)
      [] kind = "roomType" -> RoomTypeCharts[neighbourhood, resp]
      [] kind = "sentiment" -> createSentimentChart(neighbourhood, resp)
      [] kind = "occupancy" -> createOccupancyChart(neighbourhood, resp, random)

\* DestroyPrevious without the destroy() call
DestroyPrevious_skipped(slot, instances) == instances

\* if (this.xChart) this.xChart.destroy(): the live instances of the kind afterwards
DestroyPrevious(slot, instances) ==
    IF slot # None THEN instances \ {Val(slot).id} ELSE instances

----------------------------------------------------------------------------
(* App (the neighbourhood-specific controller).                            *)

\* filters.neighbourhood, "" when the key is absent
NeighbourhoodOf(filters) ==
    IF Has(filters, "neighbourhood") THEN filters.neighbourhood ELSE ""

\* RemoveEmpty that deletes nothing
RemoveEmpty_keepsAll(filters) == filters

\* applyFilters: Object.keys(filters).forEach(key => { if (!filters[key]) delete filters[key] })
RemoveEmpty(filters) ==
    LET kept == {k \in DOMAIN filters :
                    IF k = "limit" THEN filters[k] # 0 ELSE filters[k] # ""}
    IN  [k \in kept |-> filters[k]]

\* applyFilters: the criteria object built from the form
BuildFilters(f) ==
    RemoveEmpty([minPrice |-> f.minPrice, maxPrice |-> f.maxPrice,
                 roomType |-> f.roomType, neighbourhood |-> f.neighbourhood,
                 limit |-> 5000])

EmptyForm == [minPrice |-> "", maxPrice |-> "", roomType |-> "", neighbourhood |-> ""]

\* updateStats, up to its await: the #avgPrice text
AvgPriceText(listings) ==
    IF Len(listings) > 0
    THEN LET prices == Map(Filter(listings, LAMBDA l : TruthyNum(l.price)),
                           LAMBDA l : Val(l.price))
         IN  IF Len(prices) = 0 THEN [text |-> "NaN", pounds |-> 0]
             ELSE [text |-> "pounds", pounds |-> MathRound(SumSeq(prices), Len(prices))]
    ELSE [text |-> "--", pounds |-> 0]

\* updateStats without a neighbourhood: positivePct of the sentiment answer,
\* None when there is no number to format (positivePct.toFixed throws)
CityPositivePct(sentimentData) ==
    IF Has(sentimentData, "sentiment") THEN sentimentData.sentiment.positive.percentage
    ELSE Some(0)

\* updateStats, after its await: Some(tenths) written to #sentimentScore, or
\* None when the function ends in its catch without writing
SentimentText(neighbourhood, resp) ==
    IF neighbourhood # ""
    THEN LET sentimentData == getSentimentByNeighbourhood(neighbourhood, resp).value
         IN  IF Len(sentimentData) > 0 THEN sentimentData[1].positive_pct ELSE Some(0)
    ELSE LET r == getSentiment(resp)
         IN  IF r.threw THEN None ELSE CityPositivePct(r.value)

\* StepsAfterFetch with updateStats called before the map is refreshed
StepsAfterFetch_statsFirst(filters) ==
    <<"avgPrice", "listingCount", "addListings">>
    \o (IF NeighbourhoodOf(filters) # "" THEN <<"zoomToNeighbourhood">> ELSE <<>>)

\* loadData, between the listing fetch and the await of updateStats: the
\* adapter calls in program order
StepsAfterFetch(filters) ==
    <<"listingCount", "addListings">>
    \o (IF NeighbourhoodOf(filters) # "" THEN <<"zoomToNeighbourhood">> ELSE <<>>)
    \o <<"avgPrice">>

NewTask(id, caller, filters, pc) ==
    [id |-> id, caller |-> caller, filters |-> filters, pc |-> pc,
     pending |-> IF pc = "charts" THEN Kinds ELSE {},
     log |-> IF pc = "charts" THEN <<"updateAll">> ELSE <<"getListings">>]

FirstUserId == 3      \* App.init starts calls 1 (loadData) and 2 (Charts.initAll)

TypeOK ==
    /\ initPc \in {"start", "neighbourhoods", "loadData", "initAll", "ready", "failed"}
    /\ loadingHidden \in BOOLEAN /\ listeners \in BOOLEAN
    /\ alerts \in Nat /\ nextId \in 1..(FirstUserId + MaxActions)
    /\ \A t \in tasks : t.pc \in {"listings", "sentiment", "charts"} /\ t.id < nextId
    /\ \A k \in Kinds : charts[k] = None \/ Cardinality(charts[k]) = 1

\* the page as loaded, before App.init runs
Loaded ==
    /\ initPc = "start"
    /\ options = <<>>
    /\ form = EmptyForm
    /\ currentFilters = <<>>
    /\ currentNeighbourhood = ""
    /\ allListings = <<>>
    /\ listingCount = None
    /\ avgPrice = [text |-> "initial", pounds |-> 0]
    /\ sentimentScore = None
    /\ markers = <<>>
    /\ viewport = DefaultView
    /\ loadingHidden = FALSE
    /\ listeners = FALSE
    /\ alerts = 0
    /\ charts = [k \in Kinds |-> None]
    /\ live = [k \in Kinds |-> {}]
    /\ tasks = {}
    /\ nextId = 1
    /\ listingsBy = [id |-> 0, filters |-> <<>>]
    /\ rendered = 0
    /\ failures = 0

api == <<apiCall, apiResult>>
examined == <<fnInput, fnOutputs>>

Init ==
    /\ Loaded
    /\ apiCall = None
    /\ apiResult = None
    /\ fnInput = None
    /\ fnOutputs = <<>>

\* A fetch ends as resp says.  The model explores errors and overlapping
\* calls separately: a fetch ends in an error only while no other call is
\* outstanding, and at most MaxFailures of them do.
Fetched(resp) ==
    /\ resp = "ok" \/ (failures < MaxFailures /\ Cardinality(tasks) <= 1)
    /\ failures' = IF resp = "ok" THEN failures ELSE failures + 1

controller == <<form, currentFilters, currentNeighbourhood>>
mapView == <<allListings, listingCount, avgPrice, markers, viewport, listingsBy>>
chartView == <<charts, live>>

\* a StartLoadData in which every outstanding call shares the one criteria
\* object the new call is given
StartLoadData_sharedCriteria(caller, filters) ==
    /\ loadingHidden' = FALSE
    /\ tasks' = {[t EXCEPT !.filters = filters] : t \in tasks}
                 \cup {NewTask(nextId, caller, filters, "listings")}
    /\ nextId' = nextId + 1

\* loadData(filters), up to its first await: showLoading and the listing fetch
StartLoadData(caller, filters) ==
    /\ loadingHidden' = FALSE
    /\ tasks' = tasks \cup {NewTask(nextId, caller, filters, "listings")}
    /\ nextId' = nextId + 1

\* App.init up to its first await; L.map() throwing takes it to its catch
AppInit ==
    /\ initPc = "start"
    /\ \/ /\ initPc' = "neighbourhoods"
          /\ UNCHANGED <<alerts, loadingHidden>>
       \/ /\ initPc' = "failed"
          /\ alerts' = alerts + 1
          /\ loadingHidden' = TRUE
    /\ UNCHANGED <<api, examined>>
    /\ UNCHANGED <<options, controller, mapView, sentimentScore, listeners, chartView,
                   tasks, nextId, rendered, failures>>

\* loadNeighbourhoods' fetch ends; init goes on to loadData()
NeighbourhoodsResolve(resp) ==
    /\ initPc = "neighbourhoods"
    /\ Fetched(resp)
    /\ options' = options \o getNeighbourhoods(resp).value
    /\ initPc' = "loadData"
    /\ StartLoadData("init", <<>>)
    /\ UNCHANGED <<api, examined>>
    /\ UNCHANGED <<controller, mapView, sentimentScore, listeners, alerts, chartView,
                   rendered>>

\* a Finish in which a loadData that ends in its catch leaves the overlay as it is
Finish_overlayLeft(t, applied, rest) ==
    /\ rendered' = IF applied /\ t.id > rendered THEN t.id ELSE rendered
    /\ loadingHidden' = (applied \/ loadingHidden)
    /\ CASE t.caller = "init" ->
              /\ tasks' = rest \cup {NewTask(nextId, "initAll", <<>>, "charts")}
              /\ nextId' = nextId + 1
              /\ initPc' = "initAll"
              /\ UNCHANGED listeners
         [] t.caller = "initAll" ->
              /\ tasks' = rest
              /\ initPc' = "ready"
              /\ listeners' = TRUE
              /\ UNCHANGED nextId
         [] OTHER ->
              /\ tasks' = rest
              /\ UNCHANGED <<initPc, listeners, nextId>>

\* A loadData or Charts.initAll call returns to its caller, which runs on to
\* its own next await or end: init awaits Charts.initAll() after loadData(),
\* and setupEventListeners() and hideLoading() after Charts.initAll().
Finish(t, applied, rest) ==
    /\ rendered' = IF applied /\ t.id > rendered THEN t.id ELSE rendered
    /\ loadingHidden' = TRUE
    /\ CASE t.caller = "init" ->
              /\ tasks' = rest \cup {NewTask(nextId, "initAll", <<>>, "charts")}
              /\ nextId' = nextId + 1
              /\ initPc' = "initAll"
              /\ UNCHANGED listeners
         [] t.caller = "initAll" ->
              /\ tasks' = rest
              /\ initPc' = "ready"
              /\ listeners' = TRUE
              /\ UNCHANGED nextId
         [] OTHER ->
              /\ tasks' = rest
              /\ UNCHANGED <<initPc, listeners, nextId>>

\* the listing fetch of a loadData ends
ListingsResolve(t, resp) ==
    /\ t \in tasks /\ t.pc = "listings"
    /\ Fetched(resp)
    /\ LET r == getListings(t.filters, resp)
       IN  IF r.threw
           THEN /\ Finish(t, FALSE, tasks \ {t})
                /\ UNCHANGED mapView
           ELSE /\ allListings' = r.value.listings
                /\ listingCount' = Some(Len(allListings'))
                /\ markers' = addListings(Some(allListings'))
                /\ viewport' = IF NeighbourhoodOf(t.filters) # ""
                               THEN zoomToNeighbourhood(Some(allListings'), viewport)
                               ELSE viewport
                /\ avgPrice' = AvgPriceText(allListings')
                /\ listingsBy' = [id |-> t.id, filters |-> t.filters]
                /\ tasks' = (tasks \ {t}) \cup
                            {[t EXCEPT !.pc = "sentiment",
                                       !.log = @ \o StepsAfterFetch(t.filters)]}
                /\ UNCHANGED <<initPc, listeners, nextId, loadingHidden, rendered>>
    /\ UNCHANGED <<api, examined>>
    /\ UNCHANGED <<options, controller, sentimentScore, alerts, chartView>>

\* the sentiment fetch of updateStats ends; loadData goes on to Charts.updateAll
SentimentResolve(t, resp) ==
    /\ t \in tasks /\ t.pc = "sentiment"
    /\ Fetched(resp)
    /\ LET text == SentimentText(NeighbourhoodOf(t.filters), resp)
       IN  /\ sentimentScore' = IF text # None THEN text ELSE sentimentScore
           /\ tasks' = (tasks \ {t}) \cup
                       {[t EXCEPT !.pc = "charts", !.pending = Kinds,
                                  !.log = @ \o (IF text # None THEN <<"sentimentScore">>
                                                ELSE <<>>) \o <<"updateAll">>]}
    /\ UNCHANGED <<api, examined>>
    /\ UNCHANGED <<initPc, options, controller, mapView, loadingHidden, listeners, alerts,
                   chartView, nextId, rendered>>

\* the fetch of one create*Chart call of an updateAll ends; when it was the
\* last of the four, Promise.all resolves and the callers run on
ChartResolve(t, kind, resp, random) ==
    /\ t \in tasks /\ t.pc = "charts" /\ kind \in t.pending
    /\ resp \in ResponsesOf(kind)
    /\ Fetched(resp)
    /\ LET c == CreateChart(kind, NeighbourhoodOf(t.filters), resp, random)
           left == t.pending \ {kind}
       IN  /\ charts' = IF c.stage = "drawn"
                        THEN [charts EXCEPT ![kind] =
                                Some([id |-> t.id, title |-> c.title,
                                      labels |-> c.labels, data |-> c.data])]
                        ELSE charts
           /\ live' = CASE c.stage = "before" -> live
                        [] c.stage = "after" ->
                             [live EXCEPT ![kind] = DestroyPrevious(charts[kind], @)]
                        [] c.stage = "drawn" ->
                             [live EXCEPT ![kind] =
                                DestroyPrevious(charts[kind], @) \cup {t.id}]
           /\ IF left = {}
              THEN Finish(t, t.caller # "initAll", tasks \ {t})
              ELSE /\ tasks' = (tasks \ {t}) \cup {[t EXCEPT !.pending = left]}
                   /\ UNCHANGED <<initPc, listeners, nextId, loadingHidden, rendered>>
    /\ UNCHANGED <<api, examined>>
    /\ UNCHANGED <<options, controller, mapView, sentimentScore, alerts>>

\* the values the user can give the filter form
Submissions ==
    { [minPrice |-> "150", maxPrice |-> "", roomType |-> "", neighbourhood |-> "Camden"] }

\* The fetch endings the controller is run against: a body that cannot be
\* parsed takes every API call down the path of a rejected fetch.
AppResponses == {"ok", "neterr", "httperr"}

DropdownValues == {""} \cup {options[i] : i \in 1..Len(options)}

\* The user acts while at most one earlier call is outstanding (two calls
\* overlap, never three), and overlaps a call only in a run without errors.
CanAct ==
    /\ listeners
    /\ nextId < FirstUserId + MaxActions
    /\ tasks = {} \/ (Cardinality(tasks) = 1 /\ failures = 0)

\* the user fills in the form and clicks Apply (or presses Enter): applyFilters
ApplyFilters(f) ==
    /\ CanAct
    /\ f.neighbourhood \in DropdownValues
    /\ form' = f
    /\ currentFilters' = BuildFilters(f)
    /\ currentNeighbourhood' = NeighbourhoodOf(currentFilters')
    /\ StartLoadData("applyFilters", currentFilters')
    /\ UNCHANGED <<api, examined>>
    /\ UNCHANGED <<initPc, options, mapView, sentimentScore, listeners, alerts, chartView,
                   rendered, failures>>

\* the user picks a neighbourhood in the dropdown: the change handler
NeighbourhoodChange(neighbourhood) ==
    /\ CanAct
    /\ neighbourhood \in DropdownValues
    /\ neighbourhood # form.neighbourhood
    /\ form' = [form EXCEPT !.neighbourhood = neighbourhood]
    /\ currentFilters' = BuildFilters(form')
    /\ currentNeighbourhood' = NeighbourhoodOf(currentFilters')
    /\ StartLoadData("applyFilters", currentFilters')
    /\ UNCHANGED <<api, examined>>
    /\ UNCHANGED <<initPc, options, mapView, sentimentScore, listeners, alerts, chartView,
                   rendered, failures>>

\* the user clicks Reset: resetFilters
ResetFilters ==
    /\ CanAct
    /\ form' = EmptyForm
    /\ currentFilters' = <<>>
    /\ currentNeighbourhood' = ""
    /\ StartLoadData("resetFilters", <<>>)
    /\ UNCHANGED <<api, examined>>
    /\ UNCHANGED <<initPc, options, mapView, sentimentScore, listeners, alerts, chartView,
                   rendered, failures>>

Next ==
    \/ AppInit
    \/ \E resp \in AppResponses : NeighbourhoodsResolve(resp)
    \/ \E t \in tasks, resp \in AppResponses : ListingsResolve(t, resp)
    \/ \E t \in tasks, resp \in AppResponses : SentimentResolve(t, resp)
    \/ \E t \in tasks, kind \in Kinds \ {"occupancy"}, resp \in AppResponses :
          ChartResolve(t, kind, resp, 0)
    \/ \E t \in tasks, resp \in AppResponses \cup {"empty"}, random \in Variations :
          ChartResolve(t, "occupancy", resp, random)
    \/ \E f \in Submissions : ApplyFilters(f)
    \/ \E neighbourhood \in {"", "Camden"} : NeighbourhoodChange(neighbourhood)
    \/ ResetFilters

Spec == Init /\ [][Next]_vars

\* a fetch that is outstanding ends
FetchEnds ==
    \/ \E resp \in AppResponses : NeighbourhoodsResolve(resp)
    \/ \E t \in tasks, resp \in AppResponses : ListingsResolve(t, resp)
    \/ \E t \in tasks, resp \in AppResponses : SentimentResolve(t, resp)
    \/ \E t \in tasks, kind \in Kinds \ {"occupancy"}, resp \in AppResponses :
          ChartResolve(t, kind, resp, 0)
    \/ \E t \in tasks, resp \in AppResponses \cup {"empty"}, random \in Variations :
          ChartResolve(t, "occupancy", resp, random)

\* the dashboard under the assumption that every fetch eventually resolves
\* or rejects
SpecLive == Spec /\ WF_vars(FetchEnds)

----------------------------------------------------------------------------
(* The API calls on their own: one call, with its arguments and the way    *)
(* its fetch ends, is chosen initially and then made.                      *)

Call(fn, filters, neighbourhood, limit, resp, random) ==
    [fn |-> fn, filters |-> filters, neighbourhood |-> neighbourhood,
     limit |-> limit, resp |-> resp, random |-> random]

\* the criteria objects getListings is called with
FilterObjects ==
    {BuildFilters(f) :
        f \in [minPrice : {"", "150"}, maxPrice : {"", "100"},
               roomType : {"", "Private room"}, neighbourhood : {"", "Camden"}]}
    \cup {<<>>}

Neighbourhoods == {"", "Camden", "Hackney", "Soho"}

ApiCalls ==
    {Call("getListings", f, "", 0, resp, 0) : f \in FilterObjects, resp \in Responses}
    \cup {Call("getNeighbourhoods", <<>>, "", 0, resp, 0) : resp \in Responses}
    \cup {Call(fn, <<>>, nb, 0, resp, 0) :
            fn \in {"getPriceStats", "getRoomTypeDistribution",
                    "getSentimentByNeighbourhood"},
            nb \in Neighbourhoods, resp \in Responses}
    \cup {Call("getSentiment", <<>>, "", 0, resp, 0) : resp \in Responses}
    \cup {Call("getOccupancy", <<>>, nb, 0, resp, random) :
            nb \in Neighbourhoods, resp \in OccupancyResponses, random \in Variations}
    \cup {Call("getTopHosts", <<>>, nb, limit, resp, 0) :
            nb \in Neighbourhoods, limit \in {1, 10}, resp \in Responses}

\* the documented bounds of the limit parameter of GET /listings/:city
LimitBounds == 1..5000

\* the listing query a call sends to the data service: {} when it sends none
ListingQueryOf(call) ==
    CASE call.fn = "getListings" -> Some(ListingParams(call.filters))
      [] call.fn \in {"getRoomTypeDistribution", "getTopHosts"} ->
            Some(NeighbourhoodQuery(call.neighbourhood))
      [] OTHER -> None

InitApi ==
    /\ Loaded
    /\ apiCall \in {Some(c) : c \in ApiCalls}
    /\ apiResult = None
    /\ fnInput = None
    /\ fnOutputs = <<>>

\* the call fn is made and ends with result
Made(fn, result) ==
    /\ apiCall # None /\ Val(apiCall).fn = fn
    /\ apiResult = None
    /\ apiResult' = Some(result)
    /\ UNCHANGED <<initPc, options, controller, mapView, sentimentScore, loadingHidden,
                   listeners, alerts, chartView, tasks, nextId, rendered, failures,
                   apiCall, examined>>

GetListings ==
    Made("getListings", getListings(Val(apiCall).filters, Val(apiCall).resp))

GetNeighbourhoods ==
    Made("getNeighbourhoods", getNeighbourhoods(Val(apiCall).resp))

GetPriceStats ==
    Made("getPriceStats", getPriceStats(Val(apiCall).neighbourhood, Val(apiCall).resp))

GetRoomTypeDistribution ==
    Made("getRoomTypeDistribution",
         getRoomTypeDistribution(Val(apiCall).neighbourhood, Val(apiCall).resp))

GetSentiment ==
    Made("getSentiment", getSentiment(Val(apiCall).resp))

GetSentimentByNeighbourhood ==
    Made("getSentimentByNeighbourhood",
         getSentimentByNeighbourhood(Val(apiCall).neighbourhood, Val(apiCall).resp))

GetOccupancy ==
    Made("getOccupancy",
         getOccupancy(Val(apiCall).neighbourhood, Val(apiCall).resp, Val(apiCall).random))

GetTopHosts ==
    Made("getTopHosts",
         getTopHosts(Val(apiCall).neighbourhood, Val(apiCall).limit, Val(apiCall).resp))

NextApi ==
    \/ GetListings
    \/ GetNeighbourhoods
    \/ GetPriceStats
    \/ GetRoomTypeDistribution
    \/ GetSentiment
    \/ GetSentimentByNeighbourhood
    \/ GetOccupancy
    \/ GetTopHosts

SpecApi == InitApi /\ [][NextApi]_vars

----------------------------------------------------------------------------
(* The pure functions on their own: the arguments are chosen initially and *)
(* the function is then run on them.                                       *)

\* the arguments are one of inputs and the function has not run yet
Examine(inputs) ==
    /\ Loaded
    /\ apiCall = None
    /\ apiResult = None
    /\ fnInput \in {Some(i) : i \in inputs}
    /\ fnOutputs = <<>>

\* the function name runs (at most runs times) and returns output
Ran(name, output, runs) ==
    /\ fnInput # None /\ Val(fnInput).fn = name
    /\ Len(fnOutputs) < runs
    /\ fnOutputs' = Append(fnOutputs, output)
    /\ UNCHANGED <<initPc, options, controller, mapView, sentimentScore, loadingHidden,
                   listeners, alerts, chartView, tasks, nextId, rendered, failures,
                   api, fnInput>>

\* the prices a listing can carry: absent, negative, zero, positive
Prices == {None} \cup {Some(p) : p \in -5..MaxPrice}

InitColor == Examine({[fn |-> "getMarkerColor", price |-> price] : price \in Prices})

GetMarkerColor == Ran("getMarkerColor", getMarkerColor(Val(fnInput).price), 1)

NextColor == GetMarkerColor

SpecColor == InitColor /\ [][NextColor]_vars

\* the room_type labels of the records ("" is a record without one)
RoomTypeLabels ==
    {"Entire home/apt", "Private room", "Shared room", "Hotel room", "Boat", ""}

\* the record sets of up to MaxRoomRecords records, as far as room types go
RoomTypeRecordSets ==
    UNION {[1..n -> [room_type : RoomTypeLabels]] : n \in 0..MaxRoomRecords}

InitRoomTypes ==
    Examine({[fn |-> "getRoomTypeDistribution", neighbourhood |-> "", listings |-> ls] :
                ls \in RoomTypeRecordSets})

GetRoomTypeDistributionOf ==
    Ran("getRoomTypeDistribution",
        RoomTypeResult(Val(fnInput).neighbourhood, Val(fnInput).listings), 1)

NextRoomTypes == GetRoomTypeDistributionOf

SpecRoomTypes == InitRoomTypes /\ [][NextRoomTypes]_vars

\* the display name the service gives with a host id
HostNameOf(host_id) ==
    IF host_id = Some(7) THEN "John" ELSE IF host_id = Some(9) THEN "Blueground" ELSE ""

\* the records as far as hosts go: with or without a host id, with a price
\* that is absent, zero, negative or positive
HostRecords ==
    {[host_id |-> h, host_name |-> HostNameOf(h), price |-> p] :
        h \in {None, Some(7), Some(9)}, p \in {None, Some(0), Some(-50), Some(100)}}

HostRecordSets == UNION {[1..n -> HostRecords] : n \in 0..MaxHostRecords}

\* the limit argument: its default is 10
Limits == {1, 2, 10}

InitTopHosts ==
    Examine({[fn |-> "getTopHosts", neighbourhood |-> "", listings |-> ls, limit |-> limit] :
                ls \in HostRecordSets, limit \in Limits})

GetTopHostsOf ==
    Ran("getTopHosts",
        TopHostsResult(Val(fnInput).neighbourhood, Val(fnInput).listings,
                       Val(fnInput).limit), 1)

NextTopHosts == GetTopHostsOf

SpecTopHosts == InitTopHosts /\ [][NextTopHosts]_vars

\* the review counts of a sentiment answer
ReviewCounts == {0, 5, 20, 100}

\* a sentiment answer: the service sends each count with its percentage of
\* all reviews (in tenths), or with the count alone
SentimentAnswer(positive, neutral, negative, withPercentage) ==
    LET total == positive + neutral + negative
        entry(count) ==
            [count |-> count,
             percentage |-> IF withPercentage
                            THEN Some((2000 * count + total) \div (2 * total))
                            ELSE None]
    IN  [city |-> "london",
         sentiment |-> [positive |-> entry(positive), neutral |-> entry(neutral),
                        negative |-> entry(negative)]]

SentimentAnswers ==
    {SentimentAnswer(c[1], c[2], c[3], withPercentage) :
        c \in {t \in ReviewCounts \X ReviewCounts \X ReviewCounts : t[1] + t[2] + t[3] > 0},
        withPercentage \in BOOLEAN}

InitStats == Examine({[fn |-> "updateStats", sentimentData |-> a] : a \in SentimentAnswers})

UpdateStatsCityWide == Ran("updateStats", CityPositivePct(Val(fnInput).sentimentData), 1)

NextStats == UpdateStatsCityWide

SpecStats == InitStats /\ [][NextStats]_vars

(***************************************************************************)
(* API.getMockOccupancy, run up to MaxRuns times on one argument.          *)
(***************************************************************************)

\* whole-number samples of Math.random() * 10 - 5, which lies in [-5, 5)
RandomDraws == -5..4

InitMockOccupancy ==
    Examine({[fn |-> "getMockOccupancy", neighbourhood |-> nb] : nb \in Neighbourhoods})

GetMockOccupancyOf ==
    \E random \in RandomDraws :
        Ran("getMockOccupancy", getMockOccupancy(Val(fnInput).neighbourhood, random), MaxRuns)

NextMockOccupancy == GetMockOccupancyOf

SpecMockOccupancy == InitMockOccupancy /\ [][NextMockOccupancy]_vars

(***************************************************************************)
(* Charts.createPriceChart and Charts.createOccupancyChart on answers      *)
(* whose numeric field is present or missing.                              *)
(***************************************************************************)

\* a numeric field of an answer: missing, zero, or a positive number
NumericFields == {None, Some(0), Some(275)}

\* lists of one or two entries
OneOrTwo(entries) == {<<e>> : e \in entries} \cup {<<a, b>> : a \in entries, b \in entries}

PriceStatsAnswers ==
    {[city |-> "london", by_neighbourhood |-> list] :
        list \in OneOrTwo({[_id |-> id, avg_price |-> v] :
                              id \in {"Camden", "Hackney"}, v \in NumericFields})}

OccupancyAnswers ==
    {[city |-> "london", by_month |-> list] :
        list \in OneOrTwo({[_id |-> id, month |-> "", occupancy_rate |-> v] :
                              id \in {"2024-12", "2025-01"}, v \in NumericFields})}

InitChartData ==
    Examine({[fn |-> "createPriceChart", data |-> d, neighbourhood |-> nb] :
                d \in PriceStatsAnswers, nb \in {"", "Camden"}}
            \cup {[fn |-> "createOccupancyChart", data |-> d, neighbourhood |-> nb] :
                      d \in OccupancyAnswers, nb \in {"", "Camden"}})

CreatePriceChartOf ==
    Ran("createPriceChart",
        PriceChartOf(Val(fnInput).data, Val(fnInput).neighbourhood), 1)

CreateOccupancyChartOf ==
    Ran("createOccupancyChart",
        OccupancyChartOf(Val(fnInput).data, Val(fnInput).neighbourhood), 1)

NextChartData == CreatePriceChartOf \/ CreateOccupancyChartOf

SpecChartData == InitChartData /\ [][NextChartData]_vars

(***************************************************************************)
(* Charts.createWordCloud (the city-wide chart component) and              *)
(* API.getWordCloud.                                                       *)
(***************************************************************************)

\* the parsed body of the word-cloud endpoint's answer
WordCloudBody(sentiment, resp, words) ==
    IF resp = "ok" THEN [city |-> "london", sentiment |-> sentiment, words |-> words]
    ELSE ErrorBody

\* getWordCloud(sentiment, limit): data.words || [], [] from the catch
getWordCloud(sentiment, resp, words) ==
    IF resp \in {"neterr", "badjson"} THEN <<>>
    ELSE LET data == WordCloudBody(sentiment, resp, words)
         IN  IF Has(data, "words") THEN data.words ELSE <<>>

\* a LargestCount that takes the count of the first word
LargestCount_first(words) == words[1].count

\* Math.max(...words.map(w => w.count))
LargestCount(words) == SetMax({words[i].count : i \in 1..Len(words)})

\* the element appended for a word; fontSize 0.75 + (count / maxCount) * 1.5
\* is the fraction num / den (in rem)
WordElement(word, maxCount, sentiment) ==
    [fontSize |-> [num |-> 3 * maxCount + 6 * word.count, den |-> 4 * maxCount],
     color |-> CASE sentiment = "negative" -> "#ef4444"
                 [] sentiment = "positive" -> "#10b981"
                 [] OTHER -> "#2563eb",
     textContent |-> word.word,
     count |-> word.count]

\* what #wordCloud holds
Container(message, items) == [message |-> message, items |-> items]

\* createWordCloud(sentiment): #wordCloud afterwards, given it before
createWordCloud(container, sentiment, resp, answer) ==
    LET words == getWordCloud(sentiment, resp, answer)
        cleared == Container(FALSE, <<>>)
    IN  IF Len(words) = 0 THEN Container(TRUE, <<>>)
        ELSE Container(cleared.message,
                       cleared.items
                       \o [i \in 1..Len(words) |->
                              WordElement(words[i], LargestCount(words), sentiment)])

\* the words of an answer: a word is listed because it was counted
WordEntries ==
    {[word |-> w, count |-> c] : w \in {"great", "clean"}, c \in 1..MaxCount}

RECURSIVE ListsUpTo(_, _)
ListsUpTo(entries, n) ==
    IF n = 0 THEN {<<>>}
    ELSE LET shorter == ListsUpTo(entries, n - 1)
         IN  shorter \cup {Append(l, e) : l \in shorter, e \in entries}

\* what #wordCloud can hold before a call: nothing, the message, words
Containers ==
    {Container(FALSE, <<>>), Container(TRUE, <<>>),
     Container(FALSE, <<WordElement([word |-> "stay", count |-> 1], 1, "positive")>>)}

InitWordCloud ==
    Examine({[fn |-> "createWordCloud", container |-> c, sentiment |-> sentiment,
              resp |-> resp, words |-> words] :
                c \in Containers, sentiment \in {"positive", "negative"},
                resp \in Responses, words \in ListsUpTo(WordEntries, MaxWords)})

CreateWordCloud ==
    Ran("createWordCloud",
        createWordCloud(Val(fnInput).container, Val(fnInput).sentiment,
                        Val(fnInput).resp, Val(fnInput).words), 1)

NextWordCloud == CreateWordCloud

SpecWordCloud == InitWordCloud /\ [][NextWordCloud]_vars

----------------------------------------------------------------------------
(* Properties.                                                             *)

Settled == tasks = {} /\ initPc = "ready"

\* what loadData shows for the record set of the criteria
RecordsFor(filters) == ListingsEndpoint(ListingParams(filters)).listings

\* C1: once the latest filter action has completed and rendered, the
\* result of an earlier action that arrives afterwards is discarded:
\* App.allListings, the markers, the listing count, the average price and
\* the chart titles keep reflecting the latest action's criteria.
C1_StaleResultDiscarded ==
    (failures = 0 /\ rendered >= FirstUserId /\ rendered = nextId - 1) =>
        /\ allListings = RecordsFor(currentFilters)
        /\ markers = addListings(Some(RecordsFor(currentFilters)))
        /\ listingCount = Some(Len(RecordsFor(currentFilters)))
        /\ avgPrice = AvgPriceText(RecordsFor(currentFilters))
        /\ \A k \in Kinds :
              charts[k] # None /\ Val(charts[k]).title = ChartTitle(k, currentNeighbourhood)

\* C2: a chart drawn by a loadData shows the record set that loadData
\* fetched with its full criteria: when the room-type chart and the record
\* set on the map come from the same loadData, the chart is the room-type
\* distribution of that record set.
C2_ChartsUseFetchedRecords ==
    (failures = 0 /\ charts["roomType"] # None
        /\ Val(charts["roomType"]).id = listingsBy.id) =>
        LET d == RoomTypeDistribution(allListings)
        IN  /\ Val(charts["roomType"]).labels = Map(d, LAMBDA e : e._id)
            /\ Val(charts["roomType"]).data = Map(d, LAMBDA e : e.count)

\* C3: once every fetch has settled, the four charts carry the title of one
\* neighbourhood scope, the scope of the record set on the map.
C3_SameScopeEverywhere ==
    (Settled /\ failures = 0) =>
        \A k \in Kinds :
            /\ charts[k] # None
            /\ Val(charts[k]).title = ChartTitle(k, NeighbourhoodOf(listingsBy.filters))

PositionsOf(log, steps) == {i \in 1..Len(log) : log[i] \in steps}

\* C4 as claimed: in every loadData the quick summary figures are written
\* before the map is refreshed.
C4_StatsBeforeMap ==
    \A t \in tasks :
        \A i \in PositionsOf(t.log, {"avgPrice", "sentimentScore"}) :
            \A j \in PositionsOf(t.log, {"addListings", "zoomToNeighbourhood"}) : i < j

StepRank(step) ==
    CASE step = "getListings" -> 1
      [] step = "listingCount" -> 2
      [] step = "addListings" -> 3
      [] step = "zoomToNeighbourhood" -> 4
      [] step = "avgPrice" -> 5
      [] step = "sentimentScore" -> 6
      [] step = "updateAll" -> 7

\* C4 as amended: every loadData performs its steps in the order listing
\* fetch, listing count and map refresh (markers, then the viewport fit),
\* quick summary figures (average price, then the sentiment percentage),
\* chart refresh; the map is refreshed before the summary figures are
\* written and the charts are refreshed last.
C4_MapThenStatsThenCharts ==
    \A t \in tasks :
        \A i, j \in 1..Len(t.log) : i < j => StepRank(t.log[i]) < StepRank(t.log[j])

C4_Witness ==
    \E t \in tasks :
        t.log = <<"getListings", "listingCount", "addListings", "zoomToNeighbourhood",
                  "avgPrice", "sentimentScore", "updateAll">>

\* the fetch of the call ended in a transport failure, a non-ok status or an
\* unparseable body
FetchFailed == Val(apiCall).resp \in {"neterr", "httperr", "badjson"}

\* C5: an API call whose fetch fails (transport failure, non-ok status or
\* unparseable body) returns a result to its caller and never propagates
\* the failure.
C5_FailureNeverPropagates ==
    (apiResult # None /\ FetchFailed) => ~Val(apiResult).threw

\* C6: when the listing fetch of App.init's loadData fails, init ends with
\* exactly one notification raised, the overlay hidden and the listeners
\* installed.
C6_InitFailureNotifiedOnce ==
    (initPc = "ready" /\ nextId = FirstUserId /\ listingsBy.id = 0) =>
        (alerts = 1 /\ loadingHidden /\ listeners)

\* C7: after resetFilters has completed (it is the latest action, and its
\* record set is the one on the map), the viewport is the default city-wide
\* view, the criteria are empty, no neighbourhood is selected and every
\* chart title is the unscoped one.
C7_ResetRestoresUnscopedView ==
    (Settled /\ failures = 0 /\ nextId > FirstUserId /\ currentFilters = <<>>
        /\ listingsBy.id = nextId - 1) =>
        /\ viewport = DefaultView
        /\ currentNeighbourhood = ""
        /\ \A k \in Kinds : charts[k] # None /\ Val(charts[k]).title = ChartTitle(k, "")

\* C8: a neighbourhood is selected exactly when the submitted neighbourhood
\* field is non-empty; it then equals currentFilters.neighbourhood, and
\* otherwise currentFilters has no neighbourhood key.
C8_ScopedIffNeighbourhood ==
    /\ currentNeighbourhood # "" <=> form.neighbourhood # ""
    /\ currentNeighbourhood = form.neighbourhood
    /\ Has(currentFilters, "neighbourhood") <=> currentNeighbourhood # ""
    /\ Has(currentFilters, "neighbourhood") =>
           currentFilters.neighbourhood = currentNeighbourhood

C8_Witness ==
    /\ currentNeighbourhood = "Camden"
    /\ \E t \in tasks : t.caller = "applyFilters"

\* C9: of each chart kind at most one instance is live, and a live instance
\* is the one its slot references, whatever the order in which the fetches
\* of overlapping updateAll calls end.
C9_OneLiveInstancePerKind ==
    \A k \in Kinds :
        /\ Cardinality(live[k]) <= 1
        /\ live[k] # {} => (charts[k] # None /\ live[k] = {Val(charts[k]).id})

C9_Witness ==
    \E t1, t2 \in tasks :
        /\ t1.id < t2.id /\ t1.pc = "charts" /\ t2.pc = "charts"
        /\ \E k \in Kinds \ (t1.pending \cup t2.pending) : live[k] = {t1.id}

HasBothCoordinatesAndPrice(l) ==
    l.latitude # None /\ l.longitude # None /\ l.price # None /\ Val(l.price) > 0

\* C10: the number of markers is the number of records of the most recent
\* addListings input that have both coordinates, whatever their value, and
\* a positive price.
C10_MarkerCount ==
    Len(markers) =
        Cardinality({i \in 1..Len(allListings) : HasBothCoordinatesAndPrice(allListings[i])})

----------------------------------------------------------------------------
(* Properties of the pure functions.                                       *)

\* the function has run on its arguments
Returned == fnInput # None /\ fnOutputs # <<>>

\* the three tiers of a numeric price
TierOf(p) ==
    IF p > 300 THEN "#ef4444" ELSE IF p > 150 THEN "#f59e0b" ELSE "#10b981"

\* C11 as claimed: every numeric price gets the high, mid or low tier
\* (above 300, above 150 up to 300, up to 150), and only an absent price gets
\* the neutral tier.
C11_ThreeTiersForEveryNumber ==
    Returned =>
        LET price == Val(fnInput).price
        IN  fnOutputs[1] = IF price = None THEN "#9ca3af" ELSE TierOf(Val(price))

\* C11 as amended: every non-zero numeric price gets the high, mid or low
\* tier (300 itself is mid, 150 itself is low), and an absent price or a
\* price of 0 gets the neutral tier.
C11_ThreeTiersForNonZeroPrice ==
    Returned =>
        LET price == Val(fnInput).price
        IN  fnOutputs[1] = IF price = None \/ price = Some(0) THEN "#9ca3af"
                           ELSE TierOf(Val(price))

C11_Witness ==
    Returned /\ Val(fnInput).price = Some(300) /\ fnOutputs = <<"#f59e0b">>

Abs(x) == IF x < 0 THEN -x ELSE x

\* the one-decimal percentages of a distribution, in tenths
PercentagesOf(distribution) == Map(distribution, LAMBDA d : d.percentage)

\* C12 as claimed: for a non-empty record set the percentages sum to 100
\* within 0.1, whatever the number of labels; for an empty one the
\* distribution is empty.
C12_PercentagesSumTo100 ==
    Returned =>
        LET distribution == fnOutputs[1].distribution
        IN  IF Val(fnInput).listings = <<>> THEN distribution = <<>>
            ELSE Abs(SumSeq(PercentagesOf(distribution)) - 1000) <= 1

\* C12 as amended: for a non-empty record set the percentages sum to 100
\* within 0.05 per distinct label (each percentage is rounded on its own);
\* for an empty one the distribution is empty.
C12_PercentagesSumWithinRounding ==
    Returned =>
        LET distribution == fnOutputs[1].distribution
        IN  IF Val(fnInput).listings = <<>> THEN distribution = <<>>
            ELSE 2 * Abs(SumSeq(PercentagesOf(distribution)) - 1000) <= Len(distribution)

C12_Witness ==
    /\ Returned
    /\ Len(fnOutputs[1].distribution) = 3
    /\ SumSeq(PercentagesOf(fnOutputs[1].distribution)) = 999

\* the label a record is counted under
LabelOf(l) == IF l.room_type = "" THEN "Unknown" ELSE l.room_type

\* C18: the distribution has one group per label, records without a label
\* being counted under "Unknown"; every record is counted in exactly one
\* group, the counts sum to total_listings, the number of records, and each
\* percentage is count / total * 100 rounded to one decimal.
C18_GroupsByRoomType ==
    Returned =>
        LET listings == Val(fnInput).listings
            out == fnOutputs[1]
            d == out.distribution
            members(i) == {r \in 1..Len(listings) : LabelOf(listings[r]) = d[i]._id}
        IN  /\ out.total_listings = Len(listings)
            /\ \A r \in 1..Len(listings) :
                   Cardinality({i \in 1..Len(d) : d[i]._id = LabelOf(listings[r])}) = 1
            /\ \A i \in 1..Len(d) :
                   /\ d[i].count = Cardinality(members(i))
                   /\ d[i].count > 0
                   /\ 2 * Abs(d[i].percentage * Len(listings) - d[i].count * 1000)
                          <= Len(listings)
            /\ SumSeq(Map(d, LAMBDA e : e.count)) = Len(listings)

C18_Witness ==
    /\ Returned
    /\ Len(Val(fnInput).listings) = 3
    /\ \E i \in 1..Len(fnOutputs[1].distribution) :
           /\ fnOutputs[1].distribution[i]._id = "Unknown"
           /\ fnOutputs[1].distribution[i].count = 2
           /\ fnOutputs[1].distribution[i].percentage = 667

\* the records of a host (an absent id being the 'unknown' host), by position
RecordsOfHost(listings, id) == {r \in 1..Len(listings) : listings[r].host_id = id}

HostsOf(listings) == {listings[r].host_id : r \in 1..Len(listings)}

\* C13: the top hosts are sorted non-increasing by listing_count, are at
\* most limit, and are the hosts with the largest listing counts of the
\* record set.
C13_SortedAndLargest ==
    Returned =>
        LET listings == Val(fnInput).listings
            top == fnOutputs[1].top_hosts
            shown == {top[i]._id : i \in 1..Len(top)}
            n(id) == Cardinality(RecordsOfHost(listings, id))
        IN  /\ \A i \in 1..Len(top) - 1 : top[i].listing_count >= top[i + 1].listing_count
            /\ Len(top) <= Val(fnInput).limit
            /\ Cardinality(shown) = Len(top)
            /\ shown \subseteq HostsOf(listings)
            /\ Len(top) < Val(fnInput).limit => shown = HostsOf(listings)
            /\ \A i \in 1..Len(top) : top[i].listing_count = n(top[i]._id)
            /\ \A id \in HostsOf(listings) \ shown : \A other \in shown : n(id) <= n(other)

C13_Witness ==
    /\ Returned
    /\ Len(Val(fnInput).listings) = 3
    /\ Val(fnInput).listings[1].host_id = Some(7)
    /\ Val(fnInput).limit = 1
    /\ Len(fnOutputs[1].top_hosts) = 1
    /\ fnOutputs[1].top_hosts[1]._id = Some(9)
    /\ fnOutputs[1].top_hosts[1].listing_count = 2

\* the position of the first record of a host
FirstOf(listings, id) == SetMin(RecordsOfHost(listings, id))

\* C14: hosts with equal listing counts appear in the order in which they
\* are first met in the record sequence, and of tied hosts the ones met
\* first survive the truncation to limit.
C14_TiesInEncounterOrder ==
    Returned =>
        LET listings == Val(fnInput).listings
            top == fnOutputs[1].top_hosts
            shown == {top[i]._id : i \in 1..Len(top)}
            n(id) == Cardinality(RecordsOfHost(listings, id))
        IN  /\ \A i, j \in 1..Len(top) :
                   (i < j /\ top[i].listing_count = top[j].listing_count) =>
                       FirstOf(listings, top[i]._id) < FirstOf(listings, top[j]._id)
            /\ \A id \in HostsOf(listings) \ shown : \A other \in shown :
                   n(id) = n(other) => FirstOf(listings, other) < FirstOf(listings, id)

\* the prices of a host's records that are known and positive
PositivePricesOf(listings, id) ==
    LET own == SelectSeq(listings, LAMBDA l : l.host_id = id)
    IN  Map(SelectSeq(own, LAMBDA l : l.price # None /\ Val(l.price) > 0),
            LAMBDA l : Val(l.price))

\* C19: for every host of the result, listing_count is the number of records
\* with its id and avg_price is the sum over the count of its records with
\* a known positive price, or 0 when it has none: records with an absent,
\* zero or negative price count as listings and never in the average.
C19_CountAndAveragePerHost ==
    Returned =>
        LET listings == Val(fnInput).listings
            top == fnOutputs[1].top_hosts
        IN  \A i \in 1..Len(top) :
                LET prices == PositivePricesOf(listings, top[i]._id)
                    avg == top[i].avg_price
                IN  /\ top[i].listing_count =
                           Cardinality(RecordsOfHost(listings, top[i]._id))
                    /\ IF prices = <<>> THEN avg.num = 0
                       ELSE avg.num * Len(prices) = SumSeq(prices) * avg.den

\* C15: the city-wide positive-sentiment percentage of the quick stats is
\* positive.count / (positive.count + neutral.count + negative.count) x 100
\* to one decimal, whether or not the answer carries a percentage field
\* (80.0 for the counts 100, 20 and 5).
C15_PositivePctFromCounts ==
    Returned =>
        LET sentiment == Val(fnInput).sentimentData.sentiment
            total == sentiment.positive.count + sentiment.neutral.count
                     + sentiment.negative.count
        IN  fnOutputs[1] = Some((2000 * sentiment.positive.count + total) \div (2 * total))

\* C16: two runs of an aggregator on the same argument (the same non-null
\* neighbourhood included) return identical outputs.
C16_TwoRunsAgree ==
    Len(fnOutputs) >= 2 => fnOutputs[1] = fnOutputs[2]

RatesOf(result) == [i \in 1..12 |-> Val(result.by_month[i].occupancy_rate)]

\* C20: getMockOccupancy returns twelve points, one per calendar month in
\* order, each rate within [0, 100]; with no neighbourhood the rates are
\* the baseline, with one all twelve differ from it by one common offset of
\* magnitude at most 5.
C20_TwelveMonthsAroundBaseline ==
    \A k \in 1..Len(fnOutputs) :
        LET result == fnOutputs[k]
            rates == RatesOf(result)
        IN  /\ DOMAIN result.by_month = 1..12
            /\ \A i \in 1..12 : /\ result.by_month[i]._id = MonthIds[i]
                                /\ result.by_month[i].month = Months[i]
                                /\ rates[i] \in 0..100
            /\ Val(fnInput).neighbourhood = "" => rates = BaseRates
            /\ \E offset \in -5..5 : \A i \in 1..12 : rates[i] = BaseRates[i] + offset

C20_Witness ==
    /\ Len(fnOutputs) = 2
    /\ Val(fnInput).neighbourhood = "Camden"
    /\ RatesOf(fnOutputs[1])[7] = 80
    /\ RatesOf(fnOutputs[2])[7] = 89

\* the number a chart shows for a numeric field: the field, 0 when it is missing
OrZero(o) == IF o = None THEN 0 ELSE Val(o)

\* C17: a missing avg_price or occupancy_rate is coerced to 0, so the chart
\* is still drawn, with one value per entry shown and 0 for a missing one.
C17_MissingNumberDrawnAsZero ==
    Returned =>
        LET input == Val(fnInput)
            entries == IF input.fn = "createOccupancyChart" THEN input.data.by_month
                       ELSE IF input.neighbourhood = "" THEN input.data.by_neighbourhood
                       ELSE Filter(input.data.by_neighbourhood,
                                   LAMBDA n : n._id = input.neighbourhood)
            field(e) == IF input.fn = "createOccupancyChart" THEN e.occupancy_rate
                        ELSE e.avg_price
        IN  /\ fnOutputs[1].stage = "drawn"
            /\ Len(fnOutputs[1].data) = Len(entries)
            /\ \A i \in 1..Len(entries) :
                    fnOutputs[1].data[i].number = OrZero(field(entries[i]))

\* C21: getOccupancy returns the server's data exactly when the answer has
\* a non-empty by_month; when by_month is empty or missing, or the fetch or
\* the parse fails, it returns the synthetic twelve-month fallback; it
\* never throws and never returns an empty by_month.
C21_ServerDataOrFallback ==
    (apiResult # None /\ Val(apiCall).fn = "getOccupancy") =>
        LET call == Val(apiCall)
            result == Val(apiResult)
            body == OccupancyBody(call.resp)
            answered == /\ call.resp \notin {"neterr", "badjson"}
                        /\ Has(body, "by_month")
                        /\ body.by_month # <<>>
        IN  /\ ~result.threw
            /\ Len(result.value.by_month) > 0
            /\ answered => result.value = body
            /\ ~answered =>
                   /\ result.value.neighbourhood = call.neighbourhood
                   /\ Len(result.value.by_month) = 12
                   /\ \A i \in 1..12 :
                          /\ result.value.by_month[i].month = Months[i]
                          /\ Val(result.value.by_month[i].occupancy_rate)
                                 \in (BaseRates[i] - 5)..(BaseRates[i] + 5)

C21_Witness ==
    /\ apiResult # None
    /\ Val(apiCall).fn = "getOccupancy"
    /\ Val(apiCall).resp = "empty"
    /\ Len(Val(apiResult).value.by_month) = 12

\* C22: every listing query sent by getListings, getRoomTypeDistribution
\* and getTopHosts carries a limit within the documented bounds 1..5000.
C22_LimitWithinBounds ==
    (apiResult # None /\ ListingQueryOf(Val(apiCall)) # None) =>
        Val(ListingQueryOf(Val(apiCall))).limit \in LimitBounds

\* C23: a criteria object built by applyFilters and sent by getListings
\* with both a minimum and a maximum price has min <= max; a submission
\* whose minimum exceeds its maximum is sent without a price range.
C23_MinNotAboveMax ==
    (apiResult # None /\ Val(apiCall).fn = "getListings") =>
        LET filters == Val(apiCall).filters
            query == Val(ListingQueryOf(Val(apiCall)))
        IN  /\ (Has(filters, "minPrice") /\ Has(filters, "maxPrice")) =>
                   Num(filters.minPrice) <= Num(filters.maxPrice)
            /\ (Has(query, "min_price") /\ Has(query, "max_price")) =>
                   Num(query.min_price) <= Num(query.max_price)

\* C24: each applyFilters/resetFilters assigns a freshly built criteria
\* object to App.currentFilters, and the criteria captured by a loadData
\* still in progress keep the field values they had when it started,
\* whatever filter actions occur later.
C24_CriteriaNeverMutated ==
    [][/\ \A t \in tasks : \A u \in tasks' : u.id = t.id => u.filters = t.filters
       /\ \/ currentFilters' = currentFilters
          \/ currentFilters' = BuildFilters(form')
          \/ currentFilters' = <<>>]_vars

C24_Witness ==
    \E t \in tasks :
        /\ t.caller = "applyFilters"
        /\ t.pc = "listings"
        /\ t.filters = BuildFilters([minPrice |-> "150", maxPrice |-> "", roomType |-> "",
                                     neighbourhood |-> "Camden"])
        /\ currentFilters = <<>>
        /\ nextId = FirstUserId + 2

\* C25: createWordCloud replaces the previous word elements with one
\* element per word of the current result; each word's emphasis is
\* 0.75 + (count / maxCount) x 1.5, between 0.75 and 2.25, and exactly 2.25
\* for the word with the maximum count; an empty result (a failed fetch
\* included) shows the "no data" message and no word elements.
C25_WordCloudScaled ==
    (Returned /\ Val(fnInput).fn = "createWordCloud") =>
        LET input == Val(fnInput)
            shown == fnOutputs[1]
            words == IF input.resp = "ok" THEN input.words ELSE <<>>
            maxCount == SetMax({words[i].count : i \in 1..Len(words)})
        IN  IF words = <<>>
            THEN shown.message /\ shown.items = <<>>
            ELSE /\ ~shown.message
                 /\ Len(shown.items) = Len(words)
                 /\ \A i \in 1..Len(words) :
                        LET size == shown.items[i].fontSize
                        IN  /\ shown.items[i].textContent = words[i].word
                            /\ size.den > 0
                            \* size = 3/4 + (count / maxCount) * 6/4
                            /\ 4 * maxCount * size.num
                                   = (3 * maxCount + 6 * words[i].count) * size.den
                            /\ 3 * size.den <= 4 * size.num
                            /\ 4 * size.num <= 9 * size.den
                            /\ words[i].count = maxCount => 4 * size.num = 9 * size.den

C25_Witness ==
    /\ Returned
    /\ Val(fnInput).fn = "createWordCloud"
    /\ Val(fnInput).resp = "ok"
    /\ Val(fnInput).container.items # <<>>
    /\ Len(Val(fnInput).words) = 2
    /\ Val(fnInput).words[1].count = 1
    /\ Val(fnInput).words[2].count = 3
    /\ fnOutputs[1].items[1].fontSize = [num |-> 15, den |-> 12]
    /\ fnOutputs[1].items[2].fontSize = [num |-> 27, den |-> 12]

\* the chart kinds of the updateAll t whose create call ends in this step
EndingKinds(t) ==
    LET after == {u \in tasks' : u.id = t.id /\ u.pc = "charts"}
    IN  IF after = {} THEN t.pending
        ELSE t.pending \ (CHOOSE u \in after : TRUE).pending

RedrawnBy(t, k) ==
    /\ charts'[k] # None
    /\ Val(charts'[k]).id = t.id
    /\ Val(charts'[k]).title = ChartTitle(k, NeighbourhoodOf(t.filters))

InProgress(id) == \E t \in tasks : t.id = id /\ t.caller # "initAll"
Ended(id) == id < nextId /\ \A t \in tasks : t.id # id

\* C27: if every fetch eventually resolves or rejects, every loadData
\* eventually ends, whichever of its fetches fail, and the loading overlay
\* is hidden in the step in which it ends.
C27_LoadDataTerminates ==
    /\ (\E id \in 1..nextId : InProgress(id)) ~> (\A id \in 1..nextId : ~InProgress(id))
    /\ [][\A t \in tasks :
            (t.caller # "initAll" /\ \A u \in tasks' : u.id # t.id) => loadingHidden']_vars

C27_Witness ==
    /\ Ended(FirstUserId)
    /\ nextId = FirstUserId + 1
    /\ failures = 1
    /\ listingsBy.id < FirstUserId
    /\ loadingHidden

C29_SlotReferencesLiveInstance ==
    \A k \in Kinds : charts[k] # None => Val(charts[k]).id \in live[k]

\* C30: when the listing fetch of a loadData fails, that loadData leaves
\* App.allListings, the markers, the listing count, the quick stats, the
\* viewport and the charts unchanged and issues no sentiment or chart
\* fetch, while App.currentFilters and App.currentNeighbourhood hold the
\* criteria the filter action has set.
C30_FailedLoadChangesNothing ==
    [][\A t \in tasks :
          (t.pc = "listings" /\ t \notin tasks' /\ failures' = failures + 1) =>
              /\ UNCHANGED <<allListings, markers, listingCount, avgPrice, sentimentScore,
                             viewport, charts, live>>
              /\ \A u \in tasks' : u.id # t.id
              /\ t.id = nextId - 1 =>
                     /\ currentFilters' = t.filters
                     /\ currentNeighbourhood' = NeighbourhoodOf(t.filters)]_vars

C30_Witness ==
    /\ tasks = {}
    /\ failures = 1
    /\ nextId = FirstUserId + 1
    /\ listingsBy.id = 1
    /\ currentNeighbourhood = "Camden"
    /\ Has(currentFilters, "minPrice")
    /\ Len(allListings) = 4
    /\ viewport = DefaultView
    /\ \A k \in Kinds : charts[k] # None /\ Val(charts[k]).id < FirstUserId

====
